---- MODULE Spec2Model ----
(***************************************************************************)
(* Model of the MiniScale CSV logger (mini_scale_logger.py) and of the     *)
(* driver calls it makes (m5stack_mini_scale.py).                          *)
(*                                                                         *)
(* One process runs main(): it opens the bus, opens today's CSV file,      *)
(* then loops: rotate, timestamp, three sample reads, one CSV row, button  *)
(* poll with edge-triggered tare and wait-for-release.  The environment    *)
(* presses and releases the physical button, delivers SIGINT/SIGTERM, and  *)
(* makes bus and file operations fail.  The wall clock is an input read    *)
(* by today_path() and by datetime.now().                                  *)
(***************************************************************************)
EXTENDS Integers, Sequences, FiniteSets, TLC

\* ------------------------------------------------------------------ bounds
MaxTicks == 3      \* loop iterations (rows) over all runs
MaxRuns == 2       \* executions of main() (restarts + 1)
MaxEvents == 2     \* failed bus or file operations and changes of the
                   \* wall clock's date, over all runs

\* dates the wall clock can show, as strftime("%Y-%m-%d") prints them
Days == {"2025-08-05", "2025-08-06"}
FirstDay == "2025-08-05"
NoDate == ""       \* no timestamp taken yet

\* ------------------------------------------------------------ CSV content
\* A line of a CSV file.  A text line records whether it contains the
\* sequence of text segments; a row is the four formatted fields written
\* by the loop.
HeaderText == "Time,Weight_g,Weight_x100_g,RawADC"
HeaderLine == [k |-> "text", segs |-> <<HeaderText>>]
\* a first line that merely contains the header text, e.g. behind a '#'
HeaderInside == [k |-> "text", segs |-> <<"#", HeaderText>>]
NaN == [nan |-> TRUE, v |-> 0]
Num(x) == [nan |-> FALSE, v |-> x]
Row(t, a, b, c) == [k |-> "row", ts |-> t, wf |-> a, ws |-> b, adc |-> c]
\* a data row left by an earlier run whose header line was lost
OldRow == Row("2025-08-04", Num(62), Num(25000), 800)

\* `HEADER in first` of ensure_header: a substring test on the first line
ContainsHeader(line) ==
    /\ line.k = "text"
    /\ \E i \in 1..Len(line.segs) : line.segs[i] = HeaderText

\* ---------------------------------------------------------- device values
\* Weights are carried in units of 1e-4 g so that formatting to three
\* decimals is a real rounding.  625 is 0.0625 g (an exact binary tie),
\* 12346 is 1.2346 g.
\* load: what the device's registers 0x10, 0x60 (grams*100) and 0x00 hold;
\* the load on the scale stays the same during a run.
\* args.sign with the load it is run against
Setups == {[sign |-> 1, load |-> [f32 |-> 625, x100 |-> -37, raw |-> 800]],
           [sign |-> -1, load |-> [f32 |-> 12346, x100 |-> 2500, raw |-> 9136487]]}

\* get_weight_int: val / 100.0 grams, here in 1e-4 g
get_weight_int(val) == Num(val * 100)
\* get_weight_float: the float32 decoded from 0x10, here in 1e-4 g
get_weight_float(x) == Num(x)
\* get_raw_adc: int32 little endian, signed
get_raw_adc(x) == x
\* get_button_pressed: register byte 0 means pressed
ButtonByte(down) == IF down THEN 0 ELSE 1
\* variant: every byte other than 1 taken as pressed
get_button_not_one(v) == (v # 1)
get_button_pressed(v) == (v = 0)

\* float * args.sign
Mul(f, s) == IF f.nan THEN NaN ELSE Num(f.v * s)

Abs(x) == IF x < 0 THEN -x ELSE x
\* f"{x:.3f}": round to thousandths, ties to even, "nan" for not-a-number.
\* Input in 1e-4 g, output in 1e-3 g.
Fmt3(f) ==
    IF f.nan THEN NaN
    ELSE LET m == Abs(f.v)
             q == m \div 10
             r == m % 10
             up == IF r > 5 \/ (r = 5 /\ q % 2 = 1) THEN q + 1 ELSE q
         IN  Num(IF f.v < 0 THEN -up ELSE up)


\* ------------------------------------------------------------------ paths
\* today_path: weight_data_{tag_}{YYYY-MM-DD}.csv for the date the clock
\* shows; the tag is fixed for a run, so the date decides the path.
today_path(d) == <<"weight_data_", d, ".csv">>
Paths == {today_path(d) : d \in Days}
NoFile == <<>>     \* no path computed / no file object yet

\* contents the file of the first day can have before the logger first
\* opens it; the files of later days do not exist yet
InitContents == {<<>>, <<HeaderLine, OldRow>>, <<OldRow>>, <<HeaderInside>>}

\* variant: the header is written at every open
NeedsHeaderAlways(content) == TRUE

\* ensure_header's decision: empty file, or header text not in first line
NeedsHeader(content) ==
    IF Len(content) = 0 THEN TRUE ELSE ~ContainsHeader(content[1])

BTN_WAIT_RELEASE == TRUE

VARIABLES
    pc,             \* position of main()
    stop,           \* _stop
    busOpen,        \* scale._bus is open
    openFiles,      \* paths with an open file object
    fp,             \* path of the file object bound to fp
    buf,            \* lines written to fp but not yet flushed
    current_path,
    new_path,
    files,          \* path -> lines on disk
    initFiles,      \* files as found by the first run
    button,         \* physical button is down
    prev_pressed,
    pressed,
    elapsed,        \* now - last_sample_time >= BTN_SAMPLE_SECS
    ts,             \* date part of the tick's timestamp
    g_f32, g_i, adc,
    sign,           \* args.sign
    load,           \* the device's weight registers
    today,          \* date the wall clock shows
    events,         \* failed operations and date changes so far
    ev,             \* bus or file operation of the last step of main()
    ticks,          \* loop iterations started, all runs
    runs,           \* executions of main() started
    pressTares,     \* the loop's tare() calls of this run since the button
                    \* last moved
    tickRows,       \* data rows on disk when the current tick began
    readsOk,        \* the three sample reads of the current tick succeeded
    rearm,          \* "idle": no tare yet in this run; "fired": tare() was
                    \* called; "released": the button was then read released
    polled,         \* the loop has polled the button in this run
    startFails,     \* startup bus operations of this run that failed, kept
                    \* until the loop's first iteration begins
    audit,          \* FALSE: main() runs with the DEFAULTS for its startup
                    \* options.  TRUE: any startup options, and the failed
                    \* startup steps, the polls and the operations after the
                    \* stop signal are recorded
    stopRows,       \* data rows on disk when _stop was set
    stopTares,      \* tare() calls since _stop was set
    addr,           \* MiniScale.addr, the address the client talks to
    devAddr,        \* the device's address register (0xFF)
    filt,           \* the device's filter block (0x80)
    gapReg,         \* the device's calibration constant (0x40)
    call,           \* the last driver call: arguments, bus traffic, result
    cal             \* maybe_calibrate(): position and locals

vars == <<pc, stop, busOpen, openFiles, fp, buf, current_path, new_path, files,
          initFiles, button, prev_pressed, pressed, elapsed, ts, g_f32, g_i,
          adc, sign, load, today, events, ev, ticks, runs, pressTares,
          tickRows, readsOk, rearm, polled, startFails, audit, stopRows,
          stopTares, addr, devAddr, filt, gapReg, call, cal>>

fileVars == <<openFiles, fp, buf, current_path, new_path, files>>
sampleVars == <<ts, g_f32, g_i, adc, readsOk>>
buttonVars == <<prev_pressed, pressed, elapsed>>
auditVars == <<polled, startFails, stopRows, stopTares>>
ghostVars == <<pressTares, rearm, auditVars>>
drvVars == <<addr, devAddr, filt, gapReg, call, cal>>

\* the data rows on disk, as (path, line number)
RowsOnDisk(fs) ==
    {x \in UNION {{<<p, i>> : i \in 1..Len(fs[p])} : p \in Paths} :
        fs[x[1]][x[2]].k = "row"}
envVars == <<stop, button, initFiles, audit, sign, load, today, runs, drvVars>>

Ev(op, res) == [op |-> op, res |-> res]
NoEv == Ev("none", "none")
Outcome(ok) == IF ok THEN "ok" ELSE "fail"
\* outcomes an operation can have while the budget of events lasts
Oks == IF events < MaxEvents THEN BOOLEAN ELSE {TRUE}
Charge(ok) == IF ok THEN events ELSE events + 1

\* ------------------------------------------------- driver: m5stack_mini_scale
DEFAULT_ADDR == 38
REG_RAW_ADC == 0
REG_BUTTON == 32
REG_GAP_F32 == 64
REG_OFFSET_TARE == 80
REG_FILTERS == 128
REG_I2C_ADDRESS == 255

Bytes == 0..255

\* one bus transaction: _read_block (rw = "r") or _write_block (rw = "w") to
\* bus address a; data is what was read or sent, <<>> for a read that failed
Tx(rw, a, reg, data, ok) ==
    [rw |-> rw, addr |-> a, reg |-> reg, data |-> data, ok |-> ok]

\* a driver call as it ended: raised is TRUE when it ended with an exception
Call(op, args, log, raised, ret) ==
    [op |-> op, args |-> args, log |-> log, raised |-> raised, ret |-> ret]
NoCall == Call("none", <<>>, <<>>, FALSE, <<>>)

\* the device answers at the address held in its address register only
BusOks == IF addr = devAddr THEN BOOLEAN ELSE {FALSE}

\* set_filters: the three optional arguments, by position in the block
FilterFields == <<"lp_enabled", "avg_level", "ema_alpha">>
Supplied(args, i) == FilterFields[i] \in DOMAIN args

\* the block sent instead of the one read, with every field not supplied zero
set_filters_blank(cur, args) ==
    [i \in 1..3 |-> IF Supplied(args, i) THEN args[FilterFields[i]] % 256 ELSE 0]

\* cur[k] = int(x) & 0xFF for every argument x that is not None
set_filters_payload(cur, args) ==
    [i \in 1..3 |-> IF Supplied(args, i) THEN args[FilterFields[i]] % 256
                    ELSE cur[i]]

\* set_filters(**args): read the block, patch it, write it back
set_filters(args, rok, wok) ==
    LET rd == Tx("r", addr, REG_FILTERS, IF rok THEN filt ELSE <<>>, rok)
        payload == set_filters_payload(rd.data, args)
        wr == Tx("w", addr, REG_FILTERS, payload, wok)
    IN  IF ~rok THEN [call |-> Call("set_filters", args, <<rd>>, TRUE, <<>>),
                      filt |-> filt]
        ELSE [call |-> Call("set_filters", args, <<rd, wr>>, ~wok, <<>>),
              filt |-> IF wok THEN payload ELSE filt]

\* the constants (ADC counts per gram) are kept as exact fractions
Gap(n, d) == [raised |-> FALSE, num |-> n, den |-> d]
ValueError == [raised |-> TRUE, num |-> 0, den |-> 1]
DefaultGap == Gap(1, 1)

\* the subtraction the other way round
compute_gap_swapped(adc_0g, adc_w, weight_g) ==
    IF weight_g = 0 THEN ValueError ELSE Gap(adc_w - adc_0g, weight_g)

compute_gap_from_points(adc_0g, adc_w, weight_g) ==
    IF weight_g = 0 THEN ValueError ELSE Gap(adc_0g - adc_w, weight_g)

\* the address stored without the 7-bit mask
AddrStoredRaw(new_addr) == new_addr

\* [int(new_addr) & 0x7F], the byte written to the address register
AddrPayload(new_addr) == new_addr % 128
\* self.addr = int(new_addr) & 0x7F
AddrStored(new_addr) == new_addr % 128

Idle == [pc |-> "idle", adc0 |-> 0, adcW |-> 0, weight_g |-> 0,
         gap |-> DefaultGap]

InitMain ==
    /\ pc = "boot"
    /\ stop = FALSE
    /\ busOpen = FALSE
    /\ openFiles = {}
    /\ fp = NoFile
    /\ buf = <<>>
    /\ current_path = NoFile
    /\ new_path = NoFile
    /\ \E c \in InitContents :
        files = [p \in Paths |-> IF p = today_path(FirstDay) THEN c ELSE <<>>]
    /\ initFiles = files
    /\ button = FALSE
    /\ prev_pressed = FALSE
    /\ pressed = FALSE
    /\ elapsed = TRUE
    /\ ts = NoDate
    /\ g_f32 = NaN
    /\ g_i = NaN
    /\ adc = -1
    /\ \E s \in Setups : sign = s.sign /\ load = s.load
    /\ today = FirstDay
    /\ events = 0
    /\ ev = NoEv
    /\ ticks = 0
    /\ runs = 1
    /\ pressTares = 0
    /\ tickRows = Cardinality(RowsOnDisk(files))
    /\ readsOk = FALSE
    /\ rearm = "idle"
    /\ polled = FALSE
    /\ startFails = 0
    /\ stopRows = 0
    /\ stopTares = 0
    /\ addr = DEFAULT_ADDR
    /\ devAddr = DEFAULT_ADDR
    /\ filt = <<1, 10, 10>>
    /\ gapReg = DefaultGap
    /\ call = NoCall
    /\ cal = Idle

Init ==
    /\ InitMain
    /\ audit = FALSE

\* ---------------------------------------------------------------- startup
\* scale = MiniScale(bus=args.bus, addr=addr)
OpenScale ==
    /\ pc = "boot"
    /\ busOpen' = TRUE
    /\ pc' = "cfg_gap"
    /\ ev' = NoEv
    /\ UNCHANGED <<fileVars, sampleVars, buttonVars, ghostVars, envVars,
                   events, ticks, tickRows>>

\* Optional configuration, each step in a try/except of its own.  A startup
\* step leaves nothing behind in main(), so its failures are not drawn from
\* the budget of events.
\* variant: the exception of a startup step is not caught
Unwarned(ok, next) == IF ok THEN next ELSE "done"

\* except Exception as e: print("[WARN] ...")
Warned(ok, next) == next

\* args.gap, here the constant the device already holds
ArgsGap == DefaultGap
\* DEFAULTS: lp_filter_enabled, avg_filter_level, ema_filter_alpha
ArgsFilters == [lp_enabled |-> 1, avg_level |-> 10, ema_alpha |-> 10]

\* whether an optional step is configured: DEFAULTS configure none
Uses == IF audit THEN BOOLEAN ELSE {FALSE}

StartupFrame ==
    UNCHANGED <<fileVars, busOpen, sampleVars, buttonVars, pressTares, rearm,
                polled, stopRows, stop, button, initFiles, audit, sign, load,
                today, runs, addr, devAddr, call, cal, events, ticks, tickRows>>

\* if args.gap is not None: scale.set_gap(args.gap)
ConfigGap ==
    /\ pc = "cfg_gap"
    /\ \E use \in Uses : \E ok \in BusOks :
        /\ ev' = IF use THEN Ev("set_gap", Outcome(ok)) ELSE NoEv
        /\ gapReg' = IF use /\ ok THEN ArgsGap ELSE gapReg
        /\ startFails' = IF audit /\ use /\ ~ok THEN startFails + 1 ELSE startFails
        /\ pc' = Warned(~use \/ ok, "cfg_filters")
    /\ StartupFrame
    /\ UNCHANGED <<filt, stopTares>>

\* if args.set_filters: scale.set_filters(lp_enabled=..., avg_level=..., ema_alpha=...)
ConfigFilters ==
    /\ pc = "cfg_filters"
    /\ \E use \in Uses : \E rok \in BusOks : \E wok \in BusOks :
        LET r == set_filters(ArgsFilters, rok, wok)
            ok == ~r.call.raised
        IN  /\ ev' = IF use THEN Ev("set_filters", Outcome(ok)) ELSE NoEv
            /\ filt' = IF use THEN r.filt ELSE filt
            /\ startFails' = IF audit /\ use /\ ~ok THEN startFails + 1 ELSE startFails
            /\ pc' = Warned(~use \/ ok, "cfg_tare")
    /\ StartupFrame
    /\ UNCHANGED <<gapReg, stopTares>>

\* if args.tare_on_start: scale.tare(); time.sleep(0.2)
ConfigTare ==
    /\ pc = "cfg_tare"
    /\ \E use \in Uses : \E ok \in BusOks :
        /\ ev' = IF use THEN Ev("start_tare", Outcome(ok)) ELSE NoEv
        /\ startFails' = IF audit /\ use /\ ~ok THEN startFails + 1 ELSE startFails
        /\ stopTares' = IF use /\ audit /\ stop THEN stopTares + 1 ELSE stopTares
        /\ pc' = Warned(~use \/ ok, "open_first")
    /\ StartupFrame
    /\ UNCHANGED <<gapReg, filt>>

\* current_path = today_path(...); fp = open(current_path, "a+")
\* Outside the try/finally: a failure ends main() with nothing released.
StartupOpen ==
    /\ pc = "open_first"
    /\ current_path' = today_path(today)
    /\ \E ok \in Oks :
        /\ ev' = Ev("open", Outcome(ok))
        /\ events' = Charge(ok)
        /\ IF ok
           THEN /\ openFiles' = openFiles \cup {today_path(today)}
                /\ fp' = today_path(today)
                /\ pc' = "hdr_first"
           ELSE /\ UNCHANGED <<openFiles, fp>>
                /\ pc' = "done"
    /\ UNCHANGED <<buf, new_path, files, busOpen, sampleVars, buttonVars,
                   ghostVars, envVars, ticks, tickRows>>

\* ensure_header(fp, writer): header appended and flushed when needed.
\* next: where control goes when it returns; fail: where the OSError of
\* the flush goes (the header then stays in the file object's buffer).
ensure_header(next, fail) ==
    IF NeedsHeader(files[fp])
    THEN \E ok \in Oks :
         /\ ev' = Ev("header", Outcome(ok))
         /\ events' = Charge(ok)
         /\ IF ok
            THEN /\ files' = [files EXCEPT ![fp] = Append(@, HeaderLine)]
                 /\ buf' = buf
                 /\ pc' = next
            ELSE /\ buf' = Append(buf, HeaderLine)
                 /\ files' = files
                 /\ pc' = fail
    ELSE /\ ev' = Ev("header", "present")
         /\ UNCHANGED <<files, buf, events>>
         /\ pc' = next

\* ensure_header at startup, still outside the try/finally; then
\* prev_pressed = False, last_sample_time = 0.0
StartupHeader ==
    /\ pc = "hdr_first"
    /\ ensure_header("head", "done")
    /\ prev_pressed' = FALSE
    /\ elapsed' = TRUE
    /\ UNCHANGED <<openFiles, fp, current_path, new_path, busOpen, sampleVars,
                   pressed, ghostVars, envVars, ticks, tickRows>>

\* variant: the old file object is dropped without being closed
fp_close_leak(open, f) == open

\* fp.close(): the file object bound to fp is open no longer
fp_close(open, f) == open \ {f}

\* ------------------------------------------------------------------- loop
\* while not _stop: new_path = today_path(...); if new_path != current_path:
\* fp.close(); current_path = new_path
\* variant: the loop condition never sees the flag
StopSeenNever == FALSE

\* while not _stop
StopSeen == stop

LoopHead ==
    /\ pc = "head"
    /\ IF StopSeen
       THEN /\ pc' = "finally"
            /\ UNCHANGED <<fileVars, ticks, tickRows>>
       ELSE /\ ticks < MaxTicks
            /\ ticks' = ticks + 1
            /\ tickRows' = Cardinality(RowsOnDisk(files))
            /\ new_path' = today_path(today)
            /\ IF today_path(today) # current_path
               THEN /\ openFiles' = fp_close(openFiles, fp)
                    /\ current_path' = today_path(today)
                    /\ pc' = "rot_open"
               ELSE /\ UNCHANGED <<openFiles, current_path>>
                    /\ pc' = "ts"
            /\ UNCHANGED <<fp, buf, files>>
    /\ ev' = NoEv
    /\ startFails' = 0
    /\ UNCHANGED <<busOpen, sampleVars, buttonVars, pressTares, rearm, polled,
                   stopRows, stopTares, envVars, events>>

\* fp = open(current_path, "a+", newline=""); writer = csv.writer(fp)
RotateOpen ==
    /\ pc = "rot_open"
    /\ \E ok \in Oks :
        /\ ev' = Ev("open", Outcome(ok))
        /\ events' = Charge(ok)
        /\ IF ok
           THEN /\ openFiles' = openFiles \cup {current_path}
                /\ fp' = current_path
                /\ pc' = "rot_hdr"
           ELSE /\ UNCHANGED <<openFiles, fp>>
                /\ pc' = "finally"
    /\ UNCHANGED <<buf, current_path, new_path, files, busOpen, sampleVars,
                   buttonVars, ghostVars, envVars, ticks, tickRows>>

\* ensure_header(fp, writer) after a rotation
RotateHeader ==
    /\ pc = "rot_hdr"
    /\ ensure_header("ts", "finally")
    /\ UNCHANGED <<openFiles, fp, current_path, new_path, busOpen, sampleVars,
                   buttonVars, ghostVars, envVars, ticks, tickRows>>

\* ts = datetime.now().isoformat()
Timestamp ==
    /\ pc = "ts"
    /\ ts' = today
    /\ pc' = "rd_f"
    /\ ev' = NoEv
    /\ UNCHANGED <<g_f32, g_i, adc, readsOk, fileVars, busOpen, buttonVars, ghostVars,
                   envVars, events, ticks, tickRows>>

\* variant: only the raw count gets its sentinel, the weights keep what
\* they held
ReadFailedPartial(op) ==
    /\ events < MaxEvents
    /\ events' = events + 1
    /\ UNCHANGED <<g_f32, g_i>>
    /\ adc' = -1
    /\ readsOk' = FALSE
    /\ ev' = Ev(op, "fail")
    /\ pc' = "write"

\* variant: the failed read is tried again
ReadFailedRetry(op) ==
    /\ events < MaxEvents
    /\ events' = events + 1
    /\ g_f32' = NaN
    /\ g_i' = NaN
    /\ adc' = -1
    /\ readsOk' = FALSE
    /\ ev' = Ev(op, "fail")
    /\ pc' = pc

\* except Exception: g_f32 = nan; g_i = nan; adc = -1
ReadFailed(op) ==
    /\ events < MaxEvents
    /\ events' = events + 1
    /\ g_f32' = NaN
    /\ g_i' = NaN
    /\ adc' = -1
    /\ readsOk' = FALSE
    /\ ev' = Ev(op, "fail")
    /\ pc' = "write"

\* g_f32 = scale.get_weight_float() * args.sign
ReadFloat ==
    /\ pc = "rd_f"
    /\ \/ /\ g_f32' = Mul(get_weight_float(load.f32), sign)
          /\ ev' = Ev("read_f", "ok")
          /\ pc' = "rd_i"
          /\ UNCHANGED <<g_i, adc, readsOk, events>>
       \/ ReadFailed("read_f")
    /\ UNCHANGED <<ts, fileVars, busOpen, buttonVars, ghostVars, envVars, ticks,
                   tickRows>>

\* g_i = scale.get_weight_int() * args.sign
ReadScaled ==
    /\ pc = "rd_i"
    /\ \/ /\ g_i' = Mul(get_weight_int(load.x100), sign)
          /\ ev' = Ev("read_i", "ok")
          /\ pc' = "rd_adc"
          /\ UNCHANGED <<g_f32, adc, readsOk, events>>
       \/ ReadFailed("read_i")
    /\ UNCHANGED <<ts, fileVars, busOpen, buttonVars, ghostVars, envVars, ticks,
                   tickRows>>

\* adc = scale.get_raw_adc()
ReadRaw ==
    /\ pc = "rd_adc"
    /\ \/ /\ adc' = get_raw_adc(load.raw)
          /\ ev' = Ev("read_adc", "ok")
          /\ pc' = "write"
          /\ readsOk' = TRUE
          /\ UNCHANGED <<g_f32, g_i, events>>
       \/ ReadFailed("read_adc")
    /\ UNCHANGED <<ts, fileVars, busOpen, buttonVars, ghostVars, envVars, ticks,
                   tickRows>>

\* writer.writerow([ts, f"{g_f32:.3f}", f"{g_i:.3f}", adc])
WriteRow ==
    /\ pc = "write"
    /\ buf' = Append(buf, Row(ts, Fmt3(g_f32), Fmt3(g_i), adc))
    /\ pc' = "flush"
    /\ ev' = NoEv
    /\ UNCHANGED <<openFiles, fp, current_path, new_path, files, busOpen,
                   sampleVars, buttonVars, ghostVars, envVars, events, ticks, tickRows>>

\* variant: the row is left in the buffer and the loop goes on
FlushRowLazy ==
    /\ pc = "flush"
    /\ ev' = Ev("flush", "ok")
    /\ pc' = "btn"
    /\ UNCHANGED <<fileVars, busOpen, sampleVars, buttonVars, ghostVars,
                   envVars, events, ticks, tickRows>>

\* fp.flush(): the buffered row reaches the file, or OSError leaves the loop
FlushRow ==
    /\ pc = "flush"
    /\ \E ok \in Oks :
        /\ ev' = Ev("flush", Outcome(ok))
        /\ events' = Charge(ok)
        /\ IF ok
           THEN /\ files' = [files EXCEPT ![fp] = @ \o buf]
                /\ buf' = <<>>
                /\ pc' = "btn"
           ELSE /\ UNCHANGED <<files, buf>>
                /\ pc' = "finally"
    /\ UNCHANGED <<openFiles, fp, current_path, new_path, busOpen, sampleVars,
                   buttonVars, ghostVars, envVars, ticks, tickRows>>

\* ----------------------------------------------------------------- button
\* what a button read returns: the register byte decoded, or an exception
ButtonRead(ok) ==
    IF ~ok THEN "fail"
    ELSE IF get_button_pressed(ButtonByte(button)) THEN "pressed" ELSE "released"

\* the button was read released after a tare() of this run
NoteRelease(res) ==
    IF res = "released" /\ rearm = "fired" THEN "released" ELSE rearm

\* variant: a failed read counts as pressed
PolledPressedOnFail(res) == (res # "released")

\* try: pressed = scale.get_button_pressed()  except Exception: pressed = False
PolledPressed(res) == (res = "pressed")

\* variant: the wait also ends when stop was requested
WaitNextCancellable(res) ==
    IF res = "pressed" /\ ~stop THEN "wait_sleep" ELSE "setprev"

\* the wait-for-release loop: break on a read of not-pressed or on an
\* exception, else sleep and read again
WaitNext(res) == IF res = "pressed" THEN "wait_sleep" ELSE "setprev"

\* now = time.time(); if now - last_sample_time >= BTN_SAMPLE_SECS:
\*     last_sample_time = now
\*     try: pressed = scale.get_button_pressed()  except: pressed = False
\*     if pressed and not prev_pressed: ...
PollButton ==
    /\ pc = "btn"
    /\ IF elapsed
       THEN \E ok \in Oks :
            /\ elapsed' = FALSE
            /\ events' = Charge(ok)
            /\ pressed' = PolledPressed(ButtonRead(ok))
            /\ ev' = Ev("button", ButtonRead(ok))
            /\ rearm' = NoteRelease(ButtonRead(ok))
            /\ polled' = audit
            /\ pc' = IF PolledPressed(ButtonRead(ok)) /\ ~prev_pressed
                     THEN "tare" ELSE "setprev"
       ELSE /\ UNCHANGED <<elapsed, pressed, rearm, polled, events>>
            /\ ev' = NoEv
            /\ pc' = "pause"
    /\ UNCHANGED <<prev_pressed, pressTares, startFails, stopRows, stopTares,
                   fileVars, busOpen, sampleVars, envVars, ticks, tickRows>>

\* variant: the failed tare write is not caught inside the loop
TareUncaught ==
    /\ pc = "tare"
    /\ \E ok \in Oks :
        /\ ev' = Ev("tare", Outcome(ok))
        /\ events' = Charge(ok)
        /\ pc' = IF ok THEN "cooldown" ELSE "finally"
    /\ pressTares' = pressTares + 1
    /\ stopTares' = IF audit /\ stop THEN stopTares + 1 ELSE stopTares
    /\ rearm' = "fired"
    /\ UNCHANGED <<polled, startFails, stopRows, fileVars, busOpen, sampleVars, buttonVars, envVars, ticks,
                   tickRows>>

\* scale.tare(); a failed write goes to `except Exception`, past the wait
Tare ==
    /\ pc = "tare"
    /\ \E ok \in Oks :
        /\ ev' = Ev("tare", Outcome(ok))
        /\ events' = Charge(ok)
        /\ pc' = IF ok THEN "cooldown" ELSE "setprev"
    /\ pressTares' = pressTares + 1
    /\ stopTares' = IF audit /\ stop THEN stopTares + 1 ELSE stopTares
    /\ rearm' = "fired"
    /\ UNCHANGED <<polled, startFails, stopRows, fileVars, busOpen, sampleVars, buttonVars, envVars, ticks, tickRows>>

\* time.sleep(BTN_AFTER_TARE_SLEEP); if BTN_WAIT_RELEASE: while True: ...
Cooldown ==
    /\ pc = "cooldown"
    /\ elapsed' = TRUE
    /\ pc' = IF BTN_WAIT_RELEASE THEN "wait" ELSE "setprev"
    /\ ev' = NoEv
    /\ UNCHANGED <<prev_pressed, pressed, fileVars, busOpen, sampleVars,
                   ghostVars, envVars, events, ticks, tickRows>>

\* try: if not scale.get_button_pressed(): break   except Exception: break
WaitRelease ==
    /\ pc = "wait"
    /\ \E ok \in Oks :
        /\ ev' = Ev("wait_button", ButtonRead(ok))
        /\ events' = Charge(ok)
        /\ rearm' = NoteRelease(ButtonRead(ok))
        /\ pc' = WaitNext(ButtonRead(ok))
    /\ UNCHANGED <<pressTares, auditVars, fileVars, busOpen, sampleVars,
                   buttonVars, envVars, ticks, tickRows>>

\* time.sleep(BTN_SAMPLE_SECS) inside the wait-for-release loop
WaitSleep ==
    /\ pc = "wait_sleep"
    /\ elapsed' = TRUE
    /\ pc' = "wait"
    /\ ev' = NoEv
    /\ UNCHANGED <<prev_pressed, pressed, fileVars, busOpen, sampleVars,
                   ghostVars, envVars, events, ticks, tickRows>>

\* prev_pressed = pressed
SetPrev ==
    /\ pc = "setprev"
    /\ prev_pressed' = pressed
    /\ pc' = "pause"
    /\ ev' = NoEv
    /\ UNCHANGED <<pressed, elapsed, fileVars, busOpen, sampleVars, ghostVars,
                   envVars, events, ticks, tickRows>>

\* time.sleep(max(0.0, args.interval - BTN_SAMPLE_SECS)): whether a poll
\* period has gone by afterwards depends on the interval
Pause ==
    /\ pc = "pause"
    /\ \E long \in BOOLEAN : elapsed' = (elapsed \/ long)
    /\ pc' = "head"
    /\ ev' = NoEv
    /\ UNCHANGED <<prev_pressed, pressed, fileVars, busOpen, sampleVars,
                   ghostVars, envVars, events, ticks, tickRows>>

\* ---------------------------------------------------------------- cleanup
\* finally: fp.close(); scale.close()
\* fp.close() flushes what is buffered; if that flush raises, the file is
\* closed all the same, the data is dropped and scale.close() is not reached.
Finally ==
    /\ pc = "finally"
    /\ openFiles' = fp_close(openFiles, fp)
    /\ buf' = <<>>
    /\ IF buf # <<>> /\ fp \in openFiles
       THEN \E ok \in Oks :
            /\ ev' = Ev("close", Outcome(ok))
            /\ events' = Charge(ok)
            /\ files' = IF ok THEN [files EXCEPT ![fp] = @ \o buf] ELSE files
            /\ busOpen' = IF ok THEN FALSE ELSE busOpen
       ELSE /\ ev' = Ev("close", "ok")
            /\ UNCHANGED <<files, events>>
            /\ busOpen' = FALSE
    /\ pc' = "done"
    /\ UNCHANGED <<fp, current_path, new_path, sampleVars, buttonVars,
                   ghostVars, envVars, ticks, tickRows>>

\* The process has ended; the service is started again.  What the old
\* process still held is released by the operating system; a line still
\* buffered in an unclosed file object may or may not reach the file.
Restart ==
    /\ pc = "done"
    /\ runs < MaxRuns
    /\ runs' = runs + 1
    /\ \E landed \in BOOLEAN :
        files' = IF landed /\ buf # <<>> /\ fp \in openFiles
                 THEN [files EXCEPT ![fp] = @ \o buf] ELSE files
    /\ pc' = "boot"
    /\ stop' = FALSE
    /\ busOpen' = FALSE
    /\ openFiles' = {}
    /\ fp' = NoFile
    /\ buf' = <<>>
    /\ current_path' = NoFile
    /\ new_path' = NoFile
    /\ prev_pressed' = FALSE
    /\ pressed' = FALSE
    /\ elapsed' = TRUE
    /\ ts' = NoDate
    /\ g_f32' = NaN
    /\ g_i' = NaN
    /\ adc' = -1
    /\ readsOk' = FALSE
    /\ ev' = NoEv
    /\ pressTares' = 0
    /\ rearm' = "idle"
    /\ polled' = FALSE
    /\ startFails' = 0
    /\ stopRows' = 0
    /\ stopTares' = 0
    /\ UNCHANGED <<initFiles, audit, drvVars, button, sign, load, today, events, ticks, tickRows>>

\* ------------------------------------------------------------ environment
Running == pc \notin {"boot", "done"}

\* The flag is only seen when the loop condition reads it.  With audit
\* FALSE the arrival of the signal is therefore placed before that read;
\* with audit TRUE it arrives between any two steps.
AtStopRead == audit \/ pc = "head"

\* SIGINT / SIGTERM: _handle_sigterm sets _stop
HandleSigterm ==
    /\ Running
    /\ AtStopRead
    /\ ~stop
    /\ stop' = TRUE
    /\ stopRows' = IF audit THEN Cardinality(RowsOnDisk(files)) ELSE stopRows
    /\ UNCHANGED <<pc, busOpen, fileVars, sampleVars, buttonVars, pressTares,
                   rearm, polled, startFails, stopTares,
                   initFiles, audit, drvVars, button, sign, load, today, runs, events,
                   ev, ticks, tickRows>>

\* The operator pushes the button down.  The button's position is only
\* seen when its register is read, so its moves are placed before a read.
AtButtonRead == pc \in {"btn", "wait"}

Press ==
    /\ AtButtonRead
    /\ ~button
    /\ button' = TRUE
    /\ pressTares' = 0
    /\ UNCHANGED <<pc, busOpen, fileVars, sampleVars, buttonVars, rearm, auditVars,
                   initFiles, audit, drvVars, stop, sign, load, today, runs, events,
                   ev, ticks, tickRows>>

\* the operator lets the button go
Release ==
    /\ AtButtonRead
    /\ button
    /\ button' = FALSE
    /\ pressTares' = 0
    /\ UNCHANGED <<pc, busOpen, fileVars, sampleVars, buttonVars, rearm, auditVars,
                   initFiles, audit, drvVars, stop, sign, load, today, runs, events,
                   ev, ticks, tickRows>>

\* Midnight passes, or the wall clock is set to another date.  The clock is
\* only seen when it is read, so its changes are placed before a read.
AtClockRead == pc \in {"open_first", "head", "ts"}

ClockJump ==
    /\ AtClockRead
    /\ events < MaxEvents
    /\ events' = events + 1
    /\ \E d \in Days \ {today} : today' = d
    /\ UNCHANGED <<pc, busOpen, fileVars, sampleVars, buttonVars, ghostVars,
                   initFiles, audit, drvVars, stop, button, sign, load, runs, ev, ticks, tickRows>>

Next ==
    \/ OpenScale
    \/ ConfigGap
    \/ ConfigFilters
    \/ ConfigTare
    \/ StartupOpen
    \/ StartupHeader
    \/ LoopHead
    \/ RotateOpen
    \/ RotateHeader
    \/ Timestamp
    \/ ReadFloat
    \/ ReadScaled
    \/ ReadRaw
    \/ WriteRow
    \/ FlushRow
    \/ PollButton
    \/ Tare
    \/ Cooldown
    \/ WaitRelease
    \/ WaitSleep
    \/ SetPrev
    \/ Pause
    \/ Finally
    \/ Restart
    \/ HandleSigterm
    \/ Press
    \/ Release
    \/ ClockJump

Spec == Init /\ [][Next]_vars

\* the same program started on a fresh data directory with any startup
\* options, its startup failures, polls and operations after the stop signal
\* recorded
InitAudit ==
    /\ InitMain
    /\ audit = TRUE
    /\ files[today_path(FirstDay)] = <<>>
    /\ sign = 1

SpecAudit == InitAudit /\ [][Next]_vars

\* the steps of main(): a started process keeps executing
Program ==
    \/ OpenScale
    \/ ConfigGap
    \/ ConfigFilters
    \/ ConfigTare
    \/ StartupOpen
    \/ StartupHeader
    \/ LoopHead
    \/ RotateOpen
    \/ RotateHeader
    \/ Timestamp
    \/ ReadFloat
    \/ ReadScaled
    \/ ReadRaw
    \/ WriteRow
    \/ FlushRow
    \/ PollButton
    \/ Tare
    \/ Cooldown
    \/ WaitRelease
    \/ WaitSleep
    \/ SetPrev
    \/ Pause
    \/ Finally

\* one execution of main(), from its start to its end, and its environment
NextRun ==
    \/ Program
    \/ HandleSigterm
    \/ Press
    \/ Release
    \/ ClockJump

SpecRun == InitAudit /\ [][NextRun]_vars /\ WF_vars(Program)

\* --------------------------------------- the driver called outside the logger
mainVars == <<pc, busOpen, fileVars, sampleVars, buttonVars, ghostVars, stop,
              button, initFiles, audit, sign, load, today, runs, events, ev,
              ticks, tickRows>>

FilterArgs == {20, 257}
NewAddrs == {39, 166}
AdcVals == {800, 1000}
Weights == {0, 200}

\* a process that holds a MiniScale and does not run the logger's main()
InitDriver ==
    /\ Init
    /\ files[today_path(FirstDay)] = <<>>
    /\ sign = 1

\* scale.set_filters(...) with any of its three arguments given
DrvSetFilters ==
    /\ cal.pc = "idle"
    /\ call = NoCall
    /\ \E S \in SUBSET {FilterFields[i] : i \in 1..3} :
       \E args \in [S -> FilterArgs] :
       \E rok \in BusOks : \E wok \in BusOks :
        LET r == set_filters(args, rok, wok)
        IN  /\ call' = r.call
            /\ filt' = r.filt
    /\ UNCHANGED <<mainVars, addr, devAddr, gapReg, cal>>

\* set_i2c_address(new_addr): write the register, then rebind self.addr
set_i2c_address(new_addr, wok) ==
    LET wr == Tx("w", addr, REG_I2C_ADDRESS, <<AddrPayload(new_addr)>>, wok)
    IN  IF ~wok THEN [call |-> Call("set_i2c_address", new_addr, <<wr>>, TRUE, <<>>),
                      addr |-> addr, devAddr |-> devAddr]
        ELSE [call |-> Call("set_i2c_address", new_addr, <<wr>>, FALSE,
                            AddrStored(new_addr)),
              addr |-> AddrStored(new_addr), devAddr |-> wr.data[1]]

DrvSetAddress ==
    /\ cal.pc = "idle"
    /\ call = NoCall
    /\ \E n \in NewAddrs : \E wok \in BusOks :
        LET r == set_i2c_address(n, wok)
        IN  /\ call' = r.call
            /\ addr' = r.addr
            /\ devAddr' = r.devAddr
    /\ UNCHANGED <<mainVars, filt, gapReg, cal>>

\* scale.get_button_pressed() with any byte in the button register
DrvGetButton ==
    /\ cal.pc = "idle"
    /\ call = NoCall
    /\ \E v \in Bytes : \E rok \in BusOks :
        call' = Call("get_button_pressed", <<>>,
                     <<Tx("r", addr, REG_BUTTON, IF rok THEN <<v>> ELSE <<>>, rok)>>,
                     ~rok, IF rok THEN get_button_pressed(v) ELSE <<>>)
    /\ UNCHANGED <<mainVars, addr, devAddr, filt, gapReg, cal>>

\* maybe_calibrate(scale), answered "y".  No call is guarded: an exception
\* ends the procedure.
CalStart ==
    /\ cal.pc = "idle"
    /\ call = NoCall
    /\ cal' = [Idle EXCEPT !.pc = "tare"]
    /\ call' = NoCall
    /\ UNCHANGED <<mainVars, addr, devAddr, filt, gapReg>>

\* scale.tare()
CalTare ==
    /\ cal.pc = "tare"
    /\ \E wok \in BusOks :
        /\ call' = Call("tare", <<>>,
                        <<Tx("w", addr, REG_OFFSET_TARE, <<1>>, wok)>>, ~wok, <<>>)
        /\ cal' = IF wok THEN [cal EXCEPT !.pc = "adc0"] ELSE Idle
    /\ UNCHANGED <<mainVars, addr, devAddr, filt, gapReg>>

\* adc0 = scale.get_raw_adc()
CalAdc0 ==
    /\ cal.pc = "adc0"
    /\ \E v \in AdcVals : \E rok \in BusOks :
        /\ call' = Call("get_raw_adc", <<>>,
                        <<Tx("r", addr, REG_RAW_ADC, IF rok THEN <<v>> ELSE <<>>, rok)>>,
                        ~rok, IF rok THEN get_raw_adc(v) ELSE <<>>)
        /\ cal' = IF rok THEN [cal EXCEPT !.pc = "adcW", !.adc0 = get_raw_adc(v)]
                  ELSE Idle
    /\ UNCHANGED <<mainVars, addr, devAddr, filt, gapReg>>

\* adcW = scale.get_raw_adc(), with the known weight on the scale
CalAdcW ==
    /\ cal.pc = "adcW"
    /\ \E v \in AdcVals : \E rok \in BusOks :
        /\ call' = Call("get_raw_adc", <<>>,
                        <<Tx("r", addr, REG_RAW_ADC, IF rok THEN <<v>> ELSE <<>>, rok)>>,
                        ~rok, IF rok THEN get_raw_adc(v) ELSE <<>>)
        /\ cal' = IF rok THEN [cal EXCEPT !.pc = "compute", !.adcW = get_raw_adc(v)]
                  ELSE Idle
    /\ UNCHANGED <<mainVars, addr, devAddr, filt, gapReg>>

\* weight_g = float(input(...)); gap = compute_gap_from_points(adc0, adcW, weight_g)
CalCompute ==
    /\ cal.pc = "compute"
    /\ \E w \in Weights :
        LET r == compute_gap_from_points(cal.adc0, cal.adcW, w)
        IN  /\ call' = Call("compute_gap_from_points", <<cal.adc0, cal.adcW, w>>,
                            <<>>, r.raised, r)
            /\ cal' = IF r.raised THEN Idle
                      ELSE [cal EXCEPT !.pc = "set_gap", !.weight_g = w, !.gap = r]
    /\ UNCHANGED <<mainVars, addr, devAddr, filt, gapReg>>

\* scale.set_gap(gap)
CalSetGap ==
    /\ cal.pc = "set_gap"
    /\ \E wok \in BusOks :
        /\ call' = Call("set_gap", cal.gap,
                        <<Tx("w", addr, REG_GAP_F32, <<cal.gap>>, wok)>>, ~wok, <<>>)
        /\ gapReg' = IF wok THEN cal.gap ELSE gapReg
        /\ cal' = IF wok THEN [cal EXCEPT !.pc = "readback"] ELSE Idle
    /\ UNCHANGED <<mainVars, addr, devAddr, filt>>

\* readback = scale.get_gap()
CalReadback ==
    /\ cal.pc = "readback"
    /\ \E rok \in BusOks :
        call' = Call("get_gap", <<>>,
                     <<Tx("r", addr, REG_GAP_F32, IF rok THEN <<gapReg>> ELSE <<>>, rok)>>,
                     ~rok, IF rok THEN gapReg ELSE <<>>)
    /\ cal' = Idle
    /\ UNCHANGED <<mainVars, addr, devAddr, filt, gapReg>>

\* the caller has the result (or the exception) and goes on
DrvReturn ==
    /\ cal.pc = "idle"
    /\ call # NoCall
    /\ call' = NoCall
    /\ UNCHANGED <<mainVars, addr, devAddr, filt, gapReg, cal>>

NextDriver ==
    \/ DrvReturn
    \/ DrvSetFilters
    \/ DrvSetAddress
    \/ DrvGetButton
    \/ CalStart
    \/ CalTare
    \/ CalAdc0
    \/ CalAdcW
    \/ CalCompute
    \/ CalSetGap
    \/ CalReadback

SpecDriver == InitDriver /\ [][NextDriver]_vars

\* =================================================================== claims

\* C1: while the physical button stays down, tare() is called at most once
\* in a run, whatever reads and writes fail.
C1_OneTarePerPress == pressTares <= 1

\* C2: once a tare() has been called and the button has then been read
\* released (by a top-level poll or by the wait-for-release loop), the next
\* poll that reads the button pressed calls tare().
C2_RearmedByRelease ==
    (ev = Ev("button", "pressed") /\ rearm = "released") => pc = "tare"

\* positions of main() inside `while not _stop`
BeforeFlush == {"rot_open", "rot_hdr", "ts", "rd_f", "rd_i", "rd_adc", "write",
                "flush"}
AfterFlush == {"btn", "tare", "cooldown", "wait", "wait_sleep", "setprev",
               "pause"}
LoopPcs == {"head"} \cup BeforeFlush \cup AfterFlush
BusOps == {"read_f", "read_i", "read_adc", "button", "tare", "wait_button"}
FileOps == {"open", "header", "flush", "close"}

LastLine(content) == content[Len(content)]
IsPrefix(a, b) == Len(a) <= Len(b) /\ SubSeq(b, 1, Len(a)) = a

\* a weight printed with three decimals (1e-3 g) is the value x (1e-4 g)
\* to within half a thousandth
Near3(out, x) == ~out.nan /\ Abs(out.v * 10 - x) <= 5

\* the row of the current tick is the last line of the open file and holds
\* what the device returned in this tick, or the sentinels
TickRowWritten ==
    /\ fp \in openFiles
    /\ Len(files[fp]) > 0
    /\ LET r == LastLine(files[fp])
       IN  /\ r.k = "row"
           /\ r.ts = ts
           /\ IF readsOk
              THEN /\ Near3(r.wf, sign * load.f32)
                   /\ r.ws = Num(sign * load.x100 * 10)
                   /\ r.adc = load.raw
              ELSE /\ r.wf = NaN
                   /\ r.ws = NaN
                   /\ r.adc = -1

C3_RowState ==
    /\ pc \in BeforeFlush => Cardinality(RowsOnDisk(files)) = tickRows
    /\ pc \in AfterFlush =>
        /\ Cardinality(RowsOnDisk(files)) = tickRows + 1
        /\ TickRowWritten

\* C3: every tick that gets past its flush has appended exactly one row to
\* the open file: the sentinels (nan, nan, -1) if one of the three reads
\* failed, else the three values read, the weights times the sign and
\* printed with three decimals; and no line of a file is ever changed.
C3_OneRowPerTick ==
    /\ []C3_RowState
    /\ [][\A p \in Paths : IsPrefix(files[p], files'[p])]_vars

\* a tick whose reads failed has written its sentinel row
C3_Witness ==
    /\ pc = "btn"
    /\ ~readsOk
    /\ LastLine(files[fp]) = Row(ts, NaN, NaN, -1)
    /\ ticks = 2

\* C4: a failing bus operation (sample read, button read, tare write, button
\* read of the wait loop) leaves main() inside the loop; the loop is left
\* only at its head with the stop flag set, or by the error of a file
\* operation.
C4_BusFailureStaysInLoop ==
    [][/\ (pc' # pc /\ ev'.op \in BusOps /\ ev'.res = "fail") => pc' \in LoopPcs
       /\ (pc \in LoopPcs /\ pc' \notin LoopPcs) =>
            \/ pc = "head" /\ stop
            \/ ev'.op \in FileOps /\ ev'.res = "fail"]_vars

\* the tare write has failed and the loop goes on, not asked to stop
C4_Witness == pc = "setprev" /\ ev = Ev("tare", "fail") /\ ~stop

\* C5: a poll whose button read fails calls no tare(): tare() is entered
\* only from a read of "pressed"; a failed top-level read counts as not
\* pressed, a failed read in the wait loop ends the wait.
C5_FailedReadNoTare ==
    /\ pc = "tare" => ev = Ev("button", "pressed")
    /\ ev = Ev("button", "fail") => ~pressed /\ pc = "setprev"
    /\ ev = Ev("wait_button", "fail") => pc = "setprev"

\* the read failed while the button was down and not yet tared
C5_Witness == ev = Ev("button", "fail") /\ button /\ ~prev_pressed

\* C6: when main() has ended, by the stop flag or by an exception, the bus
\* handle is closed and no log file is open.
C6_AllReleased == pc = "done" => ~busOpen /\ openFiles = {}

\* C7: the wait-for-release loop never looks at the stop flag: a read of
\* "pressed" keeps it waiting, and it ends only on a read of "released" or
\* on a failed read.
C7_WaitIgnoresStop ==
    ev.op = "wait_button" =>
        \/ ev.res = "pressed" /\ pc = "wait_sleep"
        \/ ev.res \in {"released", "fail"} /\ pc = "setprev"

\* stop was requested, the button is still read pressed, the wait goes on
C7_Witness == stop /\ ev = Ev("wait_button", "pressed") /\ pc = "wait_sleep"

\* a file that was empty, or that began with its one header line
StartsClean(content) ==
    \/ content = <<>>
    \/ /\ content[1] = HeaderLine
       /\ \A i \in 2..Len(content) : content[i] # HeaderLine

\* C8: a file that was empty or began with the header line holds, whatever
\* opens, rotations, restarts and appends happen, exactly one header line,
\* as its first line.
C8_OneHeader ==
    \A p \in Paths : StartsClean(initFiles[p]) => StartsClean(files[p])

\* a fresh file that the second run has reopened and appended to
C8_Witness ==
    /\ runs = 2
    /\ pc = "btn"
    /\ initFiles[fp] = <<>>
    /\ Len(files[fp]) = 3

HeaderLines(content) == {i \in 1..Len(content) : content[i] = HeaderLine}

\* C9: a file found non-empty with a first line that is not the header gets
\* the header written once; reopening it does not write the header again.
\* Stated for the runs in which no operation fails and the date stays.
C9_HeaderOnceIfMismatch ==
    \A p \in Paths :
        (events = 0 /\ initFiles[p] # <<>> /\ ~ContainsHeader(initFiles[p][1]))
            => Cardinality(HeaderLines(files[p])) <= 1

\* C10: at most one log file is open; during a tick the open file is the
\* one whose path was computed at the head of the tick, it has had its
\* header ensured, and while the row is written its file is that path.
C10_Rotation ==
    /\ Cardinality(openFiles) <= 1
    /\ pc \in ({"ts", "rd_f", "rd_i", "rd_adc", "write", "flush"} \cup AfterFlush) =>
        /\ fp = new_path
        /\ current_path = new_path
        /\ openFiles = {fp}
        /\ \E i \in 1..Len(files[fp]) : ContainsHeader(files[fp][i])
    /\ pc \in {"rot_open"} => openFiles = {}

\* the date changed, the loop rotated and wrote a row to the new file
C10_Witness ==
    /\ pc = "btn"
    /\ fp # today_path(FirstDay)
    /\ ticks >= 2
    /\ runs = 1
    /\ Len(files[fp]) = 2
    /\ Len(files[today_path(FirstDay)]) >= 2

\* C11: set_filters reads the filter block once and writes back one full
\* 3-byte block: the block just read with the supplied fields replaced (by
\* the low byte of the value given) and the others as read, e.g. [1,10,10]
\* with avg_level=20 writes [1,20,10]; when the read fails nothing is
\* written and the device's block stays as it was.
C11_Traffic ==
    call.op = "set_filters" =>
        LET rd == call.log[1]
        IN  /\ rd.rw = "r" /\ rd.reg = REG_FILTERS
            /\ IF rd.ok
               THEN /\ Len(call.log) = 2
                    /\ call.log[2].rw = "w" /\ call.log[2].reg = REG_FILTERS
                    /\ Len(call.log[2].data) = 3
                    /\ \A i \in 1..3 :
                        call.log[2].data[i] =
                            IF Supplied(call.args, i)
                            THEN call.args[FilterFields[i]] % 256
                            ELSE rd.data[i]
                    /\ (DOMAIN call.args = {"avg_level"}
                            /\ call.args["avg_level"] = 20
                            /\ rd.data = <<1, 10, 10>>)
                        => call.log[2].data = <<1, 20, 10>>
                    /\ filt = IF call.log[2].ok THEN call.log[2].data ELSE rd.data
               ELSE /\ Len(call.log) = 1
                    /\ call.raised

C11_PartialUpdate ==
    /\ []C11_Traffic
    /\ [][(call = NoCall /\ call'.op = "set_filters") =>
            IF call'.log[1].ok THEN call'.log[1].data = filt
            ELSE filt' = filt]_vars

\* avg_level=20 alone was written over [1,10,10]
C11_Witness ==
    /\ call.op = "set_filters"
    /\ DOMAIN call.args = {"avg_level"}
    /\ call.args["avg_level"] = 20
    /\ call.log[1].ok
    /\ call.log[1].data = <<1, 10, 10>>
    /\ call.log[2].ok
    /\ filt = <<1, 20, 10>>

\* C12: the button is polled at its own short period, whatever the sampling
\* interval: once the loop has polled the button, a poll that is due again
\* (a poll period has gone by since the last one) is made before the loop
\* reads and writes another sample, so that polls fall between two rows.
C12_PollWhenDue ==
    (polled /\ elapsed) => pc \notin {"ts", "rd_f", "rd_i", "rd_adc", "write", "flush"}

\* C13: a failing startup bus operation (the calibration-constant write,
\* the filter read/write, the tare on start) is only warned about: the
\* program goes on to the next startup step, none is skipped, the log file
\* is opened and the loop is entered.  After a failed startup step the
\* program is at a later startup step or at the head of the loop, unless a
\* file operation of the startup failed.
C13_StartupGoesOn ==
    /\ ev = Ev("set_gap", "fail") => pc = "cfg_filters"
    /\ ev = Ev("set_filters", "fail") => pc = "cfg_tare"
    /\ ev = Ev("start_tare", "fail") => pc = "open_first"
    /\ startFails > 0 =>
        \/ pc \in {"cfg_filters", "cfg_tare", "open_first", "hdr_first", "head"}
        \/ pc = "done" /\ ev \in {Ev("open", "fail"), Ev("header", "fail")}
    /\ (startFails > 0 /\ pc = "head") => (busOpen /\ openFiles = {fp})

\* all three startup steps failed and the loop is about to begin
C13_Witness ==
    /\ pc = "head"
    /\ startFails = 3
    /\ ~stop
    /\ openFiles = {today_path(FirstDay)}
    /\ files[today_path(FirstDay)] = <<HeaderLine>>

\* C14 as stated: after set_i2c_address(n) succeeds, the address the client
\* uses, the address written to the device's register and the returned
\* value are equal, and the returned value is n.
C14_ReturnsNewAddress ==
    (call.op = "set_i2c_address" /\ ~call.raised) =>
        /\ addr = devAddr
        /\ devAddr = call.log[1].data[1]
        /\ call.ret = addr
        /\ call.ret = call.args

\* C14, amended: after set_i2c_address(n) succeeds, the address the client
\* uses, the address written to the device's register and the returned
\* value are equal; the value is n & 0x7F, which is n for a 7-bit n.  Every
\* later bus operation goes to that address, where the device answers.
C14_Bound ==
    /\ addr = devAddr
    /\ (call.op = "set_i2c_address" /\ ~call.raised) =>
        /\ devAddr = call.log[1].data[1]
        /\ call.ret = addr
        /\ call.ret = call.args % 128
        /\ call.args \in 0..127 => call.ret = call.args
    /\ call.op # "set_i2c_address" =>
        \A i \in DOMAIN call.log : call.log[i].addr = addr

\* C14, amended, with the failing write: the client's address stays.
C14_RebindMasked ==
    /\ []C14_Bound
    /\ [][(call = NoCall /\ call'.op = "set_i2c_address" /\ call'.raised) =>
            (addr' = addr /\ devAddr' = devAddr)]_vars

\* the address was changed to 0x27 and a later read went there
C14_Witness ==
    /\ devAddr = 39
    /\ call.op = "get_button_pressed"
    /\ call.log[1].addr = 39
    /\ call.log[1].ok

\* C15: for every byte v read from the button register (one byte of
\* register 0x20), get_button_pressed() returns TRUE exactly when v = 0.
C15_PressedIffZero ==
    (call.op = "get_button_pressed" /\ ~call.raised) =>
        /\ Len(call.log) = 1
        /\ call.log[1].rw = "r" /\ call.log[1].reg = REG_BUTTON
        /\ Len(call.log[1].data) = 1
        /\ call.log[1].data[1] \in Bytes
        /\ call.ret = (call.log[1].data[1] = 0)

\* a byte that is neither 0 nor 1 was read as not pressed
C15_Witness ==
    /\ call.op = "get_button_pressed"
    /\ ~call.raised
    /\ call.log[1].data[1] = 255
    /\ call.ret = FALSE

\* C16: compute_gap_from_points(adc0, adcW, w) raises exactly when w = 0 and
\* otherwise returns (adc0 - adcW) / w: 1000, 800, 200 gives 1, and with a
\* positive w the result is positive exactly when adcW < adc0.  In the
\* calibration procedure a zero weight ends the procedure at that call:
\* set_gap is reached only with a non-zero weight.
C16_Gap ==
    /\ call.op = "compute_gap_from_points" =>
        LET adc_0g == call.args[1]
            adc_w == call.args[2]
            w == call.args[3]
            g == call.ret
        IN  /\ call.raised <=> (w = 0)
            /\ ~call.raised =>
                /\ g.den # 0
                /\ g.num * w = (adc_0g - adc_w) * g.den
            /\ (adc_0g = 1000 /\ adc_w = 800 /\ w = 200) => g.num = g.den
            /\ w > 0 => ((g.num * g.den > 0) <=> (adc_w < adc_0g))
            /\ call.raised => cal.pc = "idle"
    /\ cal.pc \in {"set_gap", "readback"} => cal.weight_g # 0

\* C16, with the register: the constant on the device changes only in
\* set_gap, and not in a procedure that was given a zero weight.
C16_GapOrAbort ==
    /\ []C16_Gap
    /\ [][/\ gapReg' # gapReg =>
                (cal.pc = "set_gap" /\ cal.weight_g # 0 /\ gapReg' = cal.gap)
          /\ (call'.op = "compute_gap_from_points" /\ call'.raised) =>
                gapReg' = gapReg]_vars

\* the procedure read 1000 and 800, was given weight 0 and ended
C16_Witness ==
    /\ call.op = "compute_gap_from_points"
    /\ call.args = <<1000, 800, 0>>
    /\ call.raised
    /\ cal.pc = "idle"
    /\ gapReg = DefaultGap

\* C17 as stated: in every tick the float, the scaled and the raw read are
\* each attempted, in that order, whatever the outcome of the earlier ones:
\* the scaled read follows the float read, the raw read follows the scaled
\* read, and the row is written after the raw read.
C17_AllThreeAttempted ==
    /\ pc = "rd_i" => ev.op = "read_f"
    /\ pc = "rd_adc" => ev.op = "read_i"
    /\ pc = "write" => ev.op = "read_adc"

\* C17, amended: in every tick the reads are attempted in the order float,
\* scaled, raw, each at most once; a read is attempted only after the
\* earlier reads of the tick succeeded, the first failure ends the reads of
\* the tick with the sentinels, and no read is made again before the next
\* tick.
C17_ReadsUntilFailure ==
    /\ pc = "rd_f" => ev = NoEv
    /\ pc = "rd_i" => ev = Ev("read_f", "ok")
    /\ pc = "rd_adc" => ev = Ev("read_i", "ok")
    /\ pc = "write" =>
        \/ ev = Ev("read_adc", "ok") /\ readsOk
        \/ /\ ev \in {Ev(op, "fail") : op \in {"read_f", "read_i", "read_adc"}}
           /\ ~readsOk
           /\ g_f32 = NaN /\ g_i = NaN /\ adc = -1
    /\ ev.op \in {"read_f", "read_i", "read_adc"} => pc \in {"rd_i", "rd_adc", "write"}

\* the scaled read failed: the raw read was not made, the row is next
C17_Witness ==
    /\ pc = "write"
    /\ ev = Ev("read_i", "fail")
    /\ ~readsOk

\* C18: what a tick writes is flushed before the loop goes on: at the button
\* poll, the tare() call, the cooldown, the wait-for-release reads and
\* sleeps, the pause, the head of the loop (where a rotation closes the
\* file and where the loop ends) and the reopening of a rotation, nothing
\* written to the log file is still unflushed; the loop is left with
\* something unflushed only by the exception of the flush that failed.
\* When tare() is about to be called, the row of the tick, with the values
\* read in the tick, is in the file.
C18_FlushedFirst ==
    /\ pc \in (AfterFlush \cup {"head", "rot_open", "ts"}) => buf = <<>>
    /\ pc = "finally" =>
        \/ buf = <<>>
        \/ ev \in {Ev("flush", "fail"), Ev("header", "fail")}
    /\ pc = "tare" =>
        /\ TickRowWritten
        /\ Cardinality(RowsOnDisk(files)) = tickRows + 1

\* a press was read and tare() is about to be called, the row on disk
C18_Witness ==
    /\ pc = "tare"
    /\ ev = Ev("button", "pressed")
    /\ buf = <<>>
    /\ readsOk
    /\ LastLine(files[fp]).k = "row"

\* C19: once set, the stop flag stays set for the rest of the run.  After it
\* was set at most one more row reaches the log file and tare() is called at
\* most once more, and no further iteration is begun; the loop left at its
\* condition, the log file and the bus are closed, and the ended process
\* does nothing more.
C19_AfterStop ==
    /\ stop =>
        /\ Cardinality(RowsOnDisk(files)) <= stopRows + 1
        /\ stopTares <= 1
    /\ (pc = "finally" /\ ev = NoEv) => (stop /\ buf = <<>>)

C19_Steps ==
    /\ (stop /\ pc' # "boot") => stop'
    /\ stop => ticks' = ticks
    /\ (stop /\ pc = "head") => pc' \in {"head", "finally"}
    /\ (pc = "finally" /\ ev = NoEv /\ pc' = "done") =>
            (openFiles' = {} /\ ~busOpen' /\ ev' = Ev("close", "ok"))
    /\ pc = "done" => UNCHANGED <<files, openFiles, busOpen, ev>>

\* C19, with the progress: unless the program stays in the wait for release
\* for ever, a run whose stop flag is set ends.
C19_CooperativeStop ==
    /\ []C19_AfterStop
    /\ [][C19_Steps]_vars
    /\ ([]<>(pc \notin {"wait", "wait_sleep"}) => [](stop => <>(pc = "done")))

\* the flag was set before the row and the tare of the tick; the run ended
\* with both made once and everything closed
C19_Witness ==
    /\ pc = "done"
    /\ stop
    /\ Cardinality(RowsOnDisk(files)) = stopRows + 1
    /\ stopTares = 1
    /\ openFiles = {}
    /\ ~busOpen

\* C20: every data row the logger appends lies in the log file named for
\* the calendar date of the row's own timestamp.
C20_RowInItsDaysFile ==
    \A p \in Paths : \A i \in 1..Len(files[p]) :
        (i > Len(initFiles[p]) /\ files[p][i].k = "row") =>
            today_path(files[p][i].ts) = p

====
